---- MODULE Spec2Model ----
(***************************************************************************)
(* Coin selection of the BDK wallet (src/wallet/coin_selection.rs):        *)
(* get_selection, the four CoinSelectionAlgorithm implementations,         *)
(* decide_change and Waste::calculate.                                     *)
(*                                                                         *)
(* Spec    : one call of get_selection, from its arguments to its result.  *)
(* SpecBnB : one direct call of BranchAndBoundCoinSelection::coin_select,  *)
(*           one state per iteration of its search loop.                   *)
(***************************************************************************)
EXTENDS Integers, Sequences, FiniteSets, TLC

VARIABLES
    pc,                     \* position inside the call being modelled
    algorithm,              \* the `algorithm` argument (name and size_of_change)
    required_utxos,         \* Vec<WeightedUtxo>
    optional_utxos,         \* Vec<WeightedUtxo>
    fee_rate,               \* FeeRate, a rational number of sat/vbyte
    target_amount,          \* u64
    weighted_drain_script,  \* WeightedScript
    strategy_call,          \* the call algorithm.coin_select(..) made by get_selection
    fallback_call,          \* the call fallback_algorithm.coin_select(..)
    selection,              \* (selected_output_groups, effective_value, fee_amount)
    remaining_amount,       \* the amount handed to decide_change
    later_call,             \* a second coin_select call on the same strategy
    first_run,              \* what an earlier get_selection with the same inputs did
    result,                 \* what the modelled call returned
    bnb                     \* locals of the branch and bound search loop

vars == <<pc, algorithm, required_utxos, optional_utxos, fee_rate, target_amount,
          weighted_drain_script, strategy_call, fallback_call, selection,
          remaining_amount, later_call, first_run, result, bnb>>

----------------------------------------------------------------------------
(* Bounds of the model *)

MaxRequired == 2

MaxOptional == 3

MaxTarget == 6

\* Largest remaining_amount handed to decide_change called directly
MaxRemaining == 6

(* Program constants *)

TXIN_BASE_WEIGHT == (32 + 4 + 4) * 4

\* The search budget, scaled down from 100_000 to the size of the pools above:
\* a pool of MaxOptional coins has a decision tree that takes up to 15
\* iterations to enumerate, so both the exhausted tree and the exhausted
\* budget are reached.
BNB_TOTAL_TRIES == 10

\* u32::MAX, the height of a coin without a known confirmation height. The
\* largest integer of the model checker stands for 4294967295; every height
\* the database of the model answers is below it.
U32_MAX == 2147483647

\* The modulus of the cast `as u64`, scaled down from 2^64: every amount of
\* the model is far below it, and a negative i64 still wraps to a huge value.
U64_MODULUS == 1073741824

LONG_TERM_FEE_RATE == [num |-> 5, den |-> 1]

None == "None"

----------------------------------------------------------------------------
(* Input domains *)

\* The wallet's coins: value in satoshi, satisfaction weight in weight units,
\* and the id of the transaction that created the coin.
\* At the fee rates below the first coin has effective value 2, 0 and -1, the
\* second 5, 4 and 3.
UtxoKinds ==
    { [value |-> 2, satisfaction_weight |-> 80, txid |-> 1],
      [value |-> 5, satisfaction_weight |-> 0,  txid |-> 2] }

\* The coins of the pools handed to a strategy called directly
DirectUtxoKinds ==
    UtxoKinds \cup { [value |-> 3, satisfaction_weight |-> 0, txid |-> 1] }

Txids == {u.txid : u \in UtxoKinds}

\* Fee rates in sat/vbyte: 0, 1/40 and 1/20.
FeeRates ==
    { [num |-> 0, den |-> 1], [num |-> 1, den |-> 40], [num |-> 2, den |-> 40] }

\* Change scripts: length in bytes, dust threshold of the script and the
\* weight needed to spend it later.
DrainScripts ==
    { [script_len |-> 22, dust_value |-> 2, satisfaction_weight |-> 80] }

\* The change scripts of decide_change called directly: the one above and a
\* one-byte script the dust oracle gives threshold 0 (Script::dust_value
\* answers 0 for a provably unspendable script such as OP_RETURN).
DirectDrainScripts ==
    DrainScripts \cup { [script_len |-> 1, dust_value |-> 0, satisfaction_weight |-> 0] }

\* What Database::get_tx can answer for one txid: a confirmation height,
\* no transaction or no confirmation time (None), or an error.
DbAnswers ==
    { [err |-> FALSE, some |-> TRUE,  height |-> 1],
      [err |-> FALSE, some |-> TRUE,  height |-> 2],
      [err |-> FALSE, some |-> FALSE, height |-> 0],
      [err |-> TRUE,  some |-> FALSE, height |-> 0] }

Algorithms ==
    { [name |-> "LargestFirst", size_of_change |-> 0],
      [name |-> "OldestFirst", size_of_change |-> 0],
      [name |-> "SingleRandomDraw", size_of_change |-> 0],
      [name |-> "BranchAndBound", size_of_change |-> 0],
      [name |-> "BranchAndBound", size_of_change |-> 8 + 1 + 22] }

SeqsUpTo(S, n) == UNION { [1..k -> S] : k \in 0..n }

----------------------------------------------------------------------------
(* Helpers over sequences *)

Reverse(s) == [i \in 1..Len(s) |-> s[Len(s) + 1 - i]]

SumEff(s) ==
    LET f[i \in 0..Len(s)] == IF i = 0 THEN 0 ELSE f[i - 1] + s[i].effective_value
    IN  f[Len(s)]

SumFee(s) ==
    LET f[i \in 0..Len(s)] == IF i = 0 THEN 0 ELSE f[i - 1] + s[i].fee
    IN  f[Len(s)]

SumValue(s) ==
    LET f[i \in 0..Len(s)] == IF i = 0 THEN 0 ELSE f[i - 1] + s[i].value
    IN  f[Len(s)]

Permutations1(n) ==
    { p \in [1..n -> 1..n] : \A i, j \in 1..n : i # j => p[i] # p[j] }

\* slice::shuffle: any order of the same elements
Shuffles(s) == { [i \in 1..Len(s) |-> s[p[i]]] : p \in Permutations1(Len(s)) }

\* slice::sort_unstable_by_key: ascending by key, the order of elements with
\* equal keys is unspecified
SortUnstableByKey(s, keys) ==
    { [i \in 1..Len(s) |-> s[p[i]]] :
        p \in { q \in Permutations1(Len(s)) :
                   \A i \in 1..(Len(s) - 1) : keys[q[i]] <= keys[q[i + 1]] } }

CeilDiv(a, b) == (a + b - 1) \div b

----------------------------------------------------------------------------
(* Cost model *)

\* FeeRate::fee_wu: the rate applied to a weight, rounded up
fee_wu(rate, wu) == CeilDiv(rate.num * wu, 4 * rate.den)

\* FeeRate::fee_vb: the rate applied to a size in vbytes, rounded up
fee_vb(rate, vbytes) == CeilDiv(rate.num * vbytes, rate.den)

\* OutputGroup::new; src and idx name the argument list and the position the
\* coin comes from (the reference &'u WeightedUtxo)
OutputGroup_new(src, idx, weighted_utxo, rate) ==
    LET fee == fee_wu(rate, TXIN_BASE_WEIGHT + weighted_utxo.satisfaction_weight)
    IN  [src |-> src, idx |-> idx,
         value |-> weighted_utxo.value,
         satisfaction_weight |-> weighted_utxo.satisfaction_weight,
         txid |-> weighted_utxo.txid,
         fee |-> fee,
         effective_value |-> weighted_utxo.value - fee]

OutputGroups(src, utxos, rate) ==
    [i \in 1..Len(utxos) |-> OutputGroup_new(src, i, utxos[i], rate)]

----------------------------------------------------------------------------
(* The value coin_select returns: Ok((selected, fee)) or Err(err) *)

Ok(selected, fee) == [ok |-> TRUE, selected |-> selected, fee |-> fee, err |-> None]

Err(err) == [ok |-> FALSE, selected |-> <<>>, fee |-> 0, err |-> err]

\* select_sorted_utxos comparing with the target alone, the fees forgotten
select_sorted_utxos_ignoring_fees(utxos, target) ==
    LET acc[i \in 0..Len(utxos)] ==
            IF i = 0
            THEN [selected_amount |-> 0, fee_amount |-> 0, n |-> 0, stop |-> FALSE]
            ELSE LET a == acc[i - 1]
                 IN  IF ~a.stop /\ a.selected_amount < target
                     THEN [selected_amount |-> a.selected_amount + utxos[i].value,
                           fee_amount |-> a.fee_amount + utxos[i].fee,
                           n |-> i, stop |-> FALSE]
                     ELSE [a EXCEPT !.stop = TRUE]
        last == acc[Len(utxos)]
    IN  [ok |-> TRUE, selected |-> SubSeq(utxos, 1, last.n),
         fee |-> last.fee_amount, err |-> None]

\* select_sorted_utxos refusing a selection that does not reach the target
select_sorted_utxos_checked(utxos, target) ==
    LET acc[i \in 0..Len(utxos)] ==
            IF i = 0
            THEN [selected_amount |-> 0, fee_amount |-> 0, n |-> 0, stop |-> FALSE]
            ELSE LET a == acc[i - 1]
                 IN  IF ~a.stop /\ a.selected_amount < target + a.fee_amount
                     THEN [selected_amount |-> a.selected_amount + utxos[i].value,
                           fee_amount |-> a.fee_amount + utxos[i].fee,
                           n |-> i, stop |-> FALSE]
                     ELSE [a EXCEPT !.stop = TRUE]
        last == acc[Len(utxos)]
    IN  IF last.selected_amount < target + last.fee_amount
        THEN Err("InsufficientFunds")
        ELSE Ok(SubSeq(utxos, 1, last.n), last.fee_amount)

\* select_sorted_utxos: take coins in the given order while the raw value
\* selected so far is below target_amount + the fees selected so far
select_sorted_utxos(utxos, target) ==
    LET acc[i \in 0..Len(utxos)] ==
            IF i = 0
            THEN [selected_amount |-> 0, fee_amount |-> 0, n |-> 0, stop |-> FALSE]
            ELSE LET a == acc[i - 1]
                 IN  IF ~a.stop /\ a.selected_amount < target + a.fee_amount
                     THEN [selected_amount |-> a.selected_amount + utxos[i].value,
                           fee_amount |-> a.fee_amount + utxos[i].fee,
                           n |-> i, stop |-> FALSE]
                     ELSE [a EXCEPT !.stop = TRUE]
        last == acc[Len(utxos)]
    IN  Ok(SubSeq(utxos, 1, last.n), last.fee_amount)

\* The sort keys |og| og.effective_value of a pool
EffectiveValueKeys(pool) == [i \in DOMAIN pool |-> pool[i].effective_value]

\* The pool taken as it was supplied, the sort left out
LargestFirstCoinSelect_unsorted(pool, target) ==
    { select_sorted_utxos(Reverse(pool), target) }

\* The pool shuffled instead of sorted
LargestFirstCoinSelect_shuffled(pool, target) ==
    { select_sorted_utxos(s, target) : s \in Shuffles(pool) }

\* The sorted pool handed over without `.rev()`: smallest first
LargestFirstCoinSelect_ascending(pool, target) ==
    { select_sorted_utxos(s, target) :
        s \in SortUnstableByKey(pool, EffectiveValueKeys(pool)) }

\* LargestFirstCoinSelection::coin_select
LargestFirstCoinSelect(pool, target) ==
    { select_sorted_utxos(Reverse(s), target) :
        s \in SortUnstableByKey(pool, EffectiveValueKeys(pool)) }

\* The lookup made for every coin, the contains_key test left out
Blockheights_querying_every_coin(pool, database) ==
    LET acc[i \in 0..Len(pool)] ==
            IF i = 0
            THEN [ok |-> TRUE, table |-> <<>>, queries |-> <<>>]
            ELSE LET a == acc[i - 1]
                     txid == pool[i].txid
                 IN  IF ~a.ok
                     THEN a
                     ELSE IF database[txid].err
                          THEN [a EXCEPT !.ok = FALSE,
                                         !.queries = Append(@, txid)]
                          ELSE [a EXCEPT !.table = (txid :> database[txid]) @@ @,
                                         !.queries = Append(@, txid)]
    IN  acc[Len(pool)]

\* The blockheight lookup table of OldestFirstCoinSelection::coin_select:
\* one get_tx per txid not yet in the table, stopping at the first error
Blockheights(pool, database) ==
    LET acc[i \in 0..Len(pool)] ==
            IF i = 0
            THEN [ok |-> TRUE, table |-> <<>>, queries |-> <<>>]
            ELSE LET a == acc[i - 1]
                     txid == pool[i].txid
                 IN  IF ~a.ok \/ txid \in DOMAIN a.table
                     THEN a
                     ELSE IF database[txid].err
                          THEN [a EXCEPT !.ok = FALSE,
                                         !.queries = Append(@, txid)]
                          ELSE [a EXCEPT !.table = (txid :> database[txid]) @@ @,
                                         !.queries = Append(@, txid)]
    IN  acc[Len(pool)]

\* The sort key with a missing height read as 0: unknown coins come first
HeightKey_missing_first(table, og) ==
    IF og.txid \in DOMAIN table /\ table[og.txid].some
    THEN table[og.txid].height
    ELSE 0

\* The sort key of OldestFirstCoinSelection: the height, u32::MAX if missing
HeightKey(table, og) ==
    IF og.txid \in DOMAIN table /\ table[og.txid].some
    THEN table[og.txid].height
    ELSE U32_MAX

\* OldestFirstCoinSelection::coin_select
OldestFirstCoinSelect(pool, target, database) ==
    LET bh == Blockheights(pool, database)
        keys == [i \in DOMAIN pool |-> HeightKey(bh.table, pool[i])]
    IN  IF ~bh.ok
        THEN { Err("Database") }
        ELSE { select_sorted_utxos(s, target) : s \in SortUnstableByKey(pool, keys) }

\* The scan stopping only once the accumulated value exceeds the target
SingleRandomDrawScan_strict(utxos, target) ==
    LET acc[i \in 0..Len(utxos)] ==
            IF i = 0
            THEN [acc_value |-> 0, n |-> 0, stop |-> FALSE]
            ELSE LET a == acc[i - 1]
                 IN  IF a.stop \/ a.acc_value > target
                     THEN [a EXCEPT !.stop = TRUE]
                     ELSE [acc_value |-> a.acc_value + utxos[i].effective_value,
                           n |-> i, stop |-> FALSE]
        selected_utxos == SubSeq(utxos, 1, acc[Len(utxos)].n)
    IN  Ok(selected_utxos, SumFee(selected_utxos))

\* The scan of SingleRandomDrawCoinSelection over the shuffled pool: take
\* coins while the effective value accumulated so far is below the target
SingleRandomDrawScan(utxos, target) ==
    LET acc[i \in 0..Len(utxos)] ==
            IF i = 0
            THEN [acc_value |-> 0, n |-> 0, stop |-> FALSE]
            ELSE LET a == acc[i - 1]
                 IN  IF a.stop \/ a.acc_value >= target
                     THEN [a EXCEPT !.stop = TRUE]
                     ELSE [acc_value |-> a.acc_value + utxos[i].effective_value,
                           n |-> i, stop |-> FALSE]
        selected_utxos == SubSeq(utxos, 1, acc[Len(utxos)].n)
    IN  Ok(selected_utxos, SumFee(selected_utxos))

\* SingleRandomDrawCoinSelection::coin_select
SingleRandomDrawCoinSelect(pool, target) ==
    { SingleRandomDrawScan(s, target) : s \in Shuffles(pool) }

----------------------------------------------------------------------------
(* BranchAndBoundCoinSelection::coin_select *)

\* cost_of_change rounded up instead of truncated
CostOfChange_ceil(size_of_change, rate) ==
    (size_of_change * rate.num + rate.den - 1) \div rate.den

\* cost_of_change as i64: size_of_change * fee rate in sat/vbyte, truncated
CostOfChange(size_of_change, rate) == (size_of_change * rate.num) \div rate.den

\* The pool after sort_unstable_by_key(effective_value) and reverse()
BnBSortedPools(pool) ==
    { Reverse(s) : s \in SortUnstableByKey(pool, EffectiveValueKeys(pool)) }

\* The locals of the search before the first iteration
BnBInitial(sorted_pool, target, available_value, cost_of_change) ==
    [optional_utxos |-> sorted_pool,
     target_amount |-> target,
     cost_of_change |-> cost_of_change,
     current_selection |-> <<>>,
     selected_value |-> 0,
     available_value |-> available_value,
     best_selection |-> <<>>,
     best_selection_value |-> [some |-> FALSE, value |-> 0],
     tries |-> 0,
     status |-> "loop"]

\* The `while let Some(false)` walk: pop the trailing exclusions and give
\* their effective values back to available_value
RECURSIVE BnBWalkBack(_, _, _)
BnBWalkBack(utxos, current_selection, available_value) ==
    IF Len(current_selection) > 0 /\ ~current_selection[Len(current_selection)]
    THEN BnBWalkBack(utxos,
                     SubSeq(current_selection, 1, Len(current_selection) - 1),
                     available_value + utxos[Len(current_selection)].effective_value)
    ELSE [current_selection |-> current_selection, available_value |-> available_value]

\* The iteration whose backtrack step leaves selected_value as it was
\* (line 716 forgotten)
BnBIteration_keeping_selected_value(s) ==
    LET utxos == s.optional_utxos
        out_of_range ==
            \/ s.selected_value + s.available_value < s.target_amount
            \/ s.selected_value > s.target_amount + s.cost_of_change
        in_range == ~out_of_range /\ s.selected_value >= s.target_amount
        better ==
            in_range /\ (\/ ~s.best_selection_value.some
                         \/ s.selected_value < s.best_selection_value.value)
        best_selection == IF better THEN s.current_selection ELSE s.best_selection
        best_selection_value ==
            IF better THEN [some |-> TRUE, value |-> s.selected_value]
            ELSE s.best_selection_value
        s1 == [s EXCEPT !.best_selection = best_selection,
                        !.best_selection_value = best_selection_value,
                        !.tries = @ + 1]
        back == BnBWalkBack(utxos, s.current_selection, s.available_value)
        n == Len(back.current_selection)
    IN  IF in_range /\ s.selected_value = s.target_amount
        THEN [s1 EXCEPT !.status = "break"]
        ELSE IF out_of_range \/ in_range
        THEN IF n = 0
             THEN [s1 EXCEPT !.current_selection = back.current_selection,
                             !.available_value = back.available_value,
                             !.status = IF Len(best_selection) = 0
                                        THEN "BnBNoExactMatch" ELSE "break"]
             ELSE [s1 EXCEPT !.current_selection =
                                 [back.current_selection EXCEPT ![n] = FALSE],
                             !.available_value = back.available_value]
        ELSE IF Len(s.current_selection) >= Len(utxos)
        THEN [s1 EXCEPT !.status = "panic"]
        ELSE LET utxo == utxos[Len(s.current_selection) + 1]
             IN  [s1 EXCEPT !.available_value = @ - utxo.effective_value,
                            !.current_selection = Append(@, TRUE),
                            !.selected_value = @ + utxo.effective_value]

\* The iteration keeping the highest selection in range instead of the lowest
BnBIteration_keeping_highest(s) ==
    LET utxos == s.optional_utxos
        out_of_range ==
            \/ s.selected_value + s.available_value < s.target_amount
            \/ s.selected_value > s.target_amount + s.cost_of_change
        in_range == ~out_of_range /\ s.selected_value >= s.target_amount
        better ==
            in_range /\ (\/ ~s.best_selection_value.some
                         \/ s.selected_value > s.best_selection_value.value)
        best_selection == IF better THEN s.current_selection ELSE s.best_selection
        best_selection_value ==
            IF better THEN [some |-> TRUE, value |-> s.selected_value]
            ELSE s.best_selection_value
        s1 == [s EXCEPT !.best_selection = best_selection,
                        !.best_selection_value = best_selection_value,
                        !.tries = @ + 1]
        back == BnBWalkBack(utxos, s.current_selection, s.available_value)
        n == Len(back.current_selection)
    IN  IF in_range /\ s.selected_value = s.target_amount
        THEN [s1 EXCEPT !.status = "break"]
        ELSE IF out_of_range \/ in_range
        THEN IF n = 0
             THEN [s1 EXCEPT !.current_selection = back.current_selection,
                             !.available_value = back.available_value,
                             !.status = IF Len(best_selection) = 0
                                        THEN "BnBNoExactMatch" ELSE "break"]
             ELSE [s1 EXCEPT !.current_selection =
                                 [back.current_selection EXCEPT ![n] = FALSE],
                             !.available_value = back.available_value,
                             !.selected_value = @ - utxos[n].effective_value]
        ELSE IF Len(s.current_selection) >= Len(utxos)
        THEN [s1 EXCEPT !.status = "panic"]
        ELSE LET utxo == utxos[Len(s.current_selection) + 1]
             IN  [s1 EXCEPT !.available_value = @ - utxo.effective_value,
                            !.current_selection = Append(@, TRUE),
                            !.selected_value = @ + utxo.effective_value]

\* One iteration of the depth first search loop
BnBIteration(s) ==
    LET utxos == s.optional_utxos
        out_of_range ==
            \/ s.selected_value + s.available_value < s.target_amount
            \/ s.selected_value > s.target_amount + s.cost_of_change
        in_range == ~out_of_range /\ s.selected_value >= s.target_amount
        better ==
            in_range /\ (\/ ~s.best_selection_value.some
                         \/ s.selected_value < s.best_selection_value.value)
        best_selection == IF better THEN s.current_selection ELSE s.best_selection
        best_selection_value ==
            IF better THEN [some |-> TRUE, value |-> s.selected_value]
            ELSE s.best_selection_value
        s1 == [s EXCEPT !.best_selection = best_selection,
                        !.best_selection_value = best_selection_value,
                        !.tries = @ + 1]
        back == BnBWalkBack(utxos, s.current_selection, s.available_value)
        n == Len(back.current_selection)
    IN  IF in_range /\ s.selected_value = s.target_amount
        THEN [s1 EXCEPT !.status = "break"]
        ELSE IF out_of_range \/ in_range
        THEN IF n = 0
             THEN [s1 EXCEPT !.current_selection = back.current_selection,
                             !.available_value = back.available_value,
                             !.status = IF Len(best_selection) = 0
                                        THEN "BnBNoExactMatch" ELSE "break"]
             ELSE [s1 EXCEPT !.current_selection =
                                 [back.current_selection EXCEPT ![n] = FALSE],
                             !.available_value = back.available_value,
                             !.selected_value = @ - utxos[n].effective_value]
        ELSE IF Len(s.current_selection) >= Len(utxos)
        THEN [s1 EXCEPT !.status = "panic"]
        ELSE LET utxo == utxos[Len(s.current_selection) + 1]
             IN  [s1 EXCEPT !.available_value = @ - utxo.effective_value,
                            !.current_selection = Append(@, TRUE),
                            !.selected_value = @ + utxo.effective_value]

\* The loop without its budget: `loop` instead of `for _ in 0..BNB_TOTAL_TRIES`
BnBLooping_unbounded(s) == s.status = "loop"

\* The loop runs while it has neither returned nor left by `break`, for at
\* most BNB_TOTAL_TRIES iterations
BnBLooping(s) == s.status = "loop" /\ s.tries < BNB_TOTAL_TRIES

RECURSIVE BnBLoop(_)
BnBLoop(s) == IF BnBLooping(s) THEN BnBLoop(BnBIteration(s)) ELSE s

\* The utxos zipped with best_selection and filtered by it
BnBSelected(s) ==
    LET n == IF Len(s.best_selection) < Len(s.optional_utxos)
             THEN Len(s.best_selection) ELSE Len(s.optional_utxos)
        idx == SelectSeq([i \in 1..n |-> i], LAMBDA i : s.best_selection[i])
    IN  [k \in 1..Len(idx) |-> s.optional_utxos[idx[k]]]

\* What coin_select returns once the loop is over
BnBReturn(s) ==
    IF s.status \in {"BnBNoExactMatch", "panic"}
    THEN Err(s.status)
    ELSE IF Len(s.best_selection) = 0
    THEN Err("BnBTotalTriesExceeded")
    ELSE Ok(BnBSelected(s), SumFee(BnBSelected(s)))

BranchAndBoundCoinSelect(size_of_change, pool, rate, target, available_value) ==
    { BnBReturn(BnBLoop(BnBInitial(p, target, available_value,
                                   CostOfChange(size_of_change, rate)))) :
        p \in BnBSortedPools(pool) }

----------------------------------------------------------------------------
(* decide_change and Waste::calculate *)

\* serialize(script).len(): a one byte length prefix for scripts shorter
\* than 253 bytes, then the script
SerializedLen(script) == 1 + script.script_len

\* IsDust::is_dust: below the dust threshold of the script
is_dust(amount, script) == amount < script.dust_value

\* `x as u64` of an i64
as_u64(x) == x % U64_MODULUS

saturating_sub(a, b) == IF a >= b THEN a - b ELSE 0

NoChange(dust_threshold, remaining, change_fee) ==
    [kind |-> "NoChange", dust_threshold |-> dust_threshold,
     remaining_amount |-> remaining, change_fee |-> change_fee,
     amount |-> 0, fee |-> 0]

Change(amount, fee) ==
    [kind |-> "Change", dust_threshold |-> 0, remaining_amount |-> 0,
     change_fee |-> 0, amount |-> amount, fee |-> fee]

decide_change(remaining, rate, drain_script) ==
    LET drain_output_len == SerializedLen(drain_script) + 8
        change_fee == fee_vb(rate, drain_output_len)
        drain_val == saturating_sub(remaining, change_fee)
    IN  IF is_dust(drain_val, drain_script)
        THEN NoChange(drain_script.dust_value, remaining, change_fee)
        ELSE Change(drain_val, change_fee)

\* Waste::calculate forgetting the fee to spend the change output later
Waste_calculate_without_input_fee(selected, drain_script_weight, excess) ==
    LET timing[i \in 0..Len(selected)] ==
            IF i = 0 THEN 0
            ELSE timing[i - 1] + selected[i].fee
                 - fee_wu(LONG_TERM_FEE_RATE,
                          TXIN_BASE_WEIGHT + selected[i].satisfaction_weight)
        timing_cost == timing[Len(selected)]
        creation_cost ==
            IF excess.kind = "NoChange"
            THEN excess.remaining_amount
            ELSE excess.fee
    IN  timing_cost + creation_cost

\* Waste::calculate
Waste_calculate(selected, drain_script_weight, excess) ==
    LET timing[i \in 0..Len(selected)] ==
            IF i = 0 THEN 0
            ELSE timing[i - 1] + selected[i].fee
                 - fee_wu(LONG_TERM_FEE_RATE,
                          TXIN_BASE_WEIGHT + selected[i].satisfaction_weight)
        timing_cost == timing[Len(selected)]
        creation_cost ==
            IF excess.kind = "NoChange"
            THEN excess.remaining_amount
            ELSE excess.fee
                 + fee_wu(LONG_TERM_FEE_RATE, TXIN_BASE_WEIGHT + drain_script_weight)
    IN  timing_cost + creation_cost

----------------------------------------------------------------------------
(* get_selection *)

\* required_utxos mapped to output groups
RequiredGroups == OutputGroups("req", required_utxos, fee_rate)

\* The filter letting coins of effective value zero through
IsNonNegative(og) == og.effective_value >= 0

\* No filter at all
IsAnything(og) == TRUE

IsPositive(og) == og.effective_value > 0

\* optional_utxos mapped to output groups and filtered
OptionalGroups ==
    SelectSeq(OutputGroups("opt", optional_utxos, fee_rate), IsPositive)

\* The feasibility check refusing a total equal to the target
Feasible_strict(required_effective_value, optional_effective_value, target) ==
    LET total_value == optional_effective_value + required_effective_value
    IN  total_value >= 0 /\ total_value > target

\* The feasibility check looking at the optional coins alone
Feasible_optional_only(required_effective_value, optional_effective_value, target) ==
    optional_effective_value >= 0 /\ optional_effective_value >= target

\* The match on total_value: the sum converts to u64 and reaches the target
Feasible(required_effective_value, optional_effective_value, target) ==
    LET total_value == optional_effective_value + required_effective_value
    IN  total_value >= 0 /\ total_value >= target

NoExcess == NoChange(0, 0, 0)

NoResult ==
    [kind |-> "none", error |-> None, needed |-> 0, available |-> 0,
     selected |-> <<>>, fee_amount |-> 0, excess |-> NoExcess, waste |-> 0]

\* The error reporting effective values as `available`
InsufficientFunds_effective(required, optional, target) ==
    [NoResult EXCEPT !.kind = "Err", !.error = "InsufficientFunds",
                     !.needed = target + (SumFee(optional) + SumFee(required)),
                     !.available = SumEff(required \o optional)]

InsufficientFunds(required, optional, target) ==
    [NoResult EXCEPT !.kind = "Err", !.error = "InsufficientFunds",
                     !.needed = target + (SumFee(optional) + SumFee(required)),
                     !.available = SumValue(required \o optional)]

\* `required_effective_value > target_amount_i64`
RequiredAreEnough(required_effective_value, target) ==
    required_effective_value > target

NoCall ==
    [called |-> FALSE, algorithm |-> None, optional_utxos |-> <<>>,
     target_amount |-> 0, available_value |-> 0, queries |-> <<>>,
     blockheights |-> <<>>, database |-> <<>>, out |-> Err(None)]

Call(name, pool, target, available_value, out) ==
    [NoCall EXCEPT !.called = TRUE, !.algorithm = name, !.optional_utxos = pool,
                   !.target_amount = target, !.available_value = available_value,
                   !.out = out]

NoSelection ==
    [selected_output_groups |-> <<>>, effective_value |-> 0, fee_amount |-> 0]

BnBIdle == [BnBInitial(<<>>, 0, 0, 0) EXCEPT !.status = "idle"]

\* No earlier run
NoRun ==
    [done |-> FALSE, result |-> NoResult, strategy_call |-> NoCall,
     fallback_call |-> NoCall]

\* target_amount for the strategy: what the required coins leave uncovered
ReducedTarget == target_amount - SumEff(RequiredGroups)

\* The required coins put in front of the strategy's coins
Merged_required_first(out) ==
    [selected_output_groups |-> RequiredGroups \o out.selected,
     effective_value |-> SumEff(out.selected) + SumEff(RequiredGroups),
     fee_amount |-> out.fee + SumFee(RequiredGroups)]

\* The fees of the required coins left out of fee_amount
Merged_optional_fees_only(out) ==
    [selected_output_groups |-> out.selected \o RequiredGroups,
     effective_value |-> SumEff(out.selected) + SumEff(RequiredGroups),
     fee_amount |-> out.fee]

\* selected_utxos.append(&mut required_utxos) and the two sums
Merged(out) ==
    [selected_output_groups |-> out.selected \o RequiredGroups,
     effective_value |-> SumEff(out.selected) + SumEff(RequiredGroups),
     fee_amount |-> out.fee + SumFee(RequiredGroups)]

Init ==
    /\ pc = "preprocessing"
    /\ algorithm \in Algorithms
    /\ required_utxos \in SeqsUpTo(UtxoKinds, MaxRequired)
    /\ optional_utxos \in SeqsUpTo(UtxoKinds, MaxOptional)
    /\ fee_rate \in FeeRates
    /\ target_amount \in 0..MaxTarget
    /\ weighted_drain_script \in DrainScripts
    /\ strategy_call = NoCall
    /\ fallback_call = NoCall
    /\ later_call = NoCall
    /\ first_run = NoRun
    /\ selection = NoSelection
    /\ remaining_amount = 0
    /\ result = NoResult
    /\ bnb = BnBIdle

Inputs == <<algorithm, required_utxos, optional_utxos, fee_rate, target_amount,
            weighted_drain_script>>

\* The feasibility check left out: every call goes on to the coin selection
Preprocessing_without_gate ==
    /\ pc = "preprocessing"
    /\ pc' = "coin_selection"
    /\ UNCHANGED <<Inputs, remaining_amount, later_call, first_run, strategy_call, fallback_call, selection,
                   result, bnb>>

\* PREPROCESSING: the feasibility check
Preprocessing ==
    /\ pc = "preprocessing"
    /\ IF Feasible(SumEff(RequiredGroups), SumEff(OptionalGroups), target_amount)
       THEN /\ pc' = "coin_selection"
            /\ UNCHANGED result
       ELSE /\ pc' = "done"
            /\ result' = InsufficientFunds(RequiredGroups, OptionalGroups, target_amount)
    /\ UNCHANGED <<Inputs, remaining_amount, later_call, first_run, strategy_call, fallback_call, selection, bnb>>

\* COIN SELECTION, first branch: the required coins alone
RequiredOnly ==
    /\ pc = "coin_selection"
    /\ RequiredAreEnough(SumEff(RequiredGroups), target_amount)
    /\ selection' = [selected_output_groups |-> RequiredGroups,
                     effective_value |-> SumEff(RequiredGroups),
                     fee_amount |-> SumFee(RequiredGroups)]
    /\ pc' = "excess"
    /\ UNCHANGED <<Inputs, remaining_amount, later_call, first_run, strategy_call, fallback_call, result, bnb>>

\* The strategy's error returned to the caller instead of running the fallback
AfterCoinSelect_propagating(call) ==
    /\ strategy_call' = call
    /\ IF call.out.ok
       THEN /\ selection' = Merged(call.out)
            /\ pc' = "excess"
            /\ UNCHANGED result
       ELSE /\ pc' = "done"
            /\ result' = [NoResult EXCEPT !.kind = "Err", !.error = call.out.err]
            /\ UNCHANGED selection
    /\ UNCHANGED <<Inputs, remaining_amount, later_call, first_run, fallback_call, bnb>>

\* A database error returned to the caller, the other errors to the fallback
AfterCoinSelect_propagating_database(call) ==
    /\ strategy_call' = call
    /\ IF call.out.ok
       THEN /\ selection' = Merged(call.out)
            /\ pc' = "excess"
            /\ UNCHANGED result
       ELSE IF call.out.err = "Database"
       THEN /\ pc' = "done"
            /\ result' = [NoResult EXCEPT !.kind = "Err", !.error = call.out.err]
            /\ UNCHANGED selection
       ELSE /\ pc' = "fallback"
            /\ UNCHANGED <<selection, result>>
    /\ UNCHANGED <<Inputs, remaining_amount, later_call, first_run, fallback_call, bnb>>

\* What follows algorithm.coin_select(..): Ok goes on, Err runs the fallback
AfterCoinSelect(call) ==
    /\ strategy_call' = call
    /\ IF call.out.ok
       THEN /\ selection' = Merged(call.out)
            /\ pc' = "excess"
       ELSE /\ pc' = "fallback"
            /\ UNCHANGED selection
    /\ UNCHANGED <<Inputs, remaining_amount, later_call, first_run, fallback_call, result, bnb>>

CoinSelectGuard(name) ==
    /\ pc = "coin_selection"
    /\ ~RequiredAreEnough(SumEff(RequiredGroups), target_amount)
    /\ algorithm.name = name

CoinSelectLargestFirst ==
    /\ CoinSelectGuard("LargestFirst")
    /\ \E out \in LargestFirstCoinSelect(OptionalGroups, ReducedTarget) :
           AfterCoinSelect(Call("LargestFirst", OptionalGroups, ReducedTarget,
                                SumEff(OptionalGroups), out))

CoinSelectOldestFirst ==
    /\ CoinSelectGuard("OldestFirst")
    /\ \E database \in [Txids -> DbAnswers] :
         \E out \in OldestFirstCoinSelect(OptionalGroups, ReducedTarget, database) :
           AfterCoinSelect(
             [Call("OldestFirst", OptionalGroups, ReducedTarget,
                   SumEff(OptionalGroups), out)
                EXCEPT !.queries = Blockheights(OptionalGroups, database).queries,
                       !.blockheights = Blockheights(OptionalGroups, database).table])

CoinSelectBranchAndBound ==
    /\ CoinSelectGuard("BranchAndBound")
    /\ \E out \in BranchAndBoundCoinSelect(algorithm.size_of_change, OptionalGroups,
                                           fee_rate, ReducedTarget,
                                           SumEff(OptionalGroups)) :
           AfterCoinSelect(Call("BranchAndBound", OptionalGroups, ReducedTarget,
                                SumEff(OptionalGroups), out))

CoinSelectSingleRandomDraw ==
    /\ CoinSelectGuard("SingleRandomDraw")
    /\ \E out \in SingleRandomDrawCoinSelect(OptionalGroups, ReducedTarget) :
           AfterCoinSelect(Call("SingleRandomDraw", OptionalGroups, ReducedTarget,
                                SumEff(OptionalGroups), out))

\* Err(_err): FallbackCoinSelectionAlgorithm, whose error is returned by `?`
Fallback ==
    /\ pc = "fallback"
    /\ \E out \in SingleRandomDrawCoinSelect(OptionalGroups, ReducedTarget) :
         /\ fallback_call' = Call("SingleRandomDraw", OptionalGroups, ReducedTarget,
                                  SumEff(OptionalGroups), out)
         /\ IF out.ok
            THEN /\ selection' = Merged(out)
                 /\ pc' = "excess"
                 /\ UNCHANGED result
            ELSE /\ result' = [NoResult EXCEPT !.kind = "Err", !.error = out.err]
                 /\ pc' = "done"
                 /\ UNCHANGED selection
    /\ UNCHANGED <<Inputs, remaining_amount, later_call, first_run, strategy_call, bnb>>

\* GET EXCESS, GET WASTE, GET UTXOS, BUILD COIN SELECTION RESULT
BuildResult ==
    /\ pc = "excess"
    /\ LET effective_value == as_u64(selection.effective_value)
           remaining == saturating_sub(effective_value, target_amount)
           excess == decide_change(remaining, fee_rate, weighted_drain_script)
           waste == Waste_calculate(selection.selected_output_groups,
                                    weighted_drain_script.satisfaction_weight, excess)
       IN  /\ remaining_amount' = remaining
           /\ result' = [NoResult EXCEPT !.kind = "Ok",
                                         !.selected = selection.selected_output_groups,
                                         !.fee_amount = selection.fee_amount,
                                         !.excess = excess,
                                         !.waste = waste]
    /\ pc' = "done"
    /\ UNCHANGED <<Inputs, later_call, first_run, strategy_call, fallback_call, selection, bnb>>

Next ==
    \/ Preprocessing
    \/ RequiredOnly
    \/ CoinSelectLargestFirst
    \/ CoinSelectOldestFirst
    \/ CoinSelectBranchAndBound
    \/ CoinSelectSingleRandomDraw
    \/ Fallback
    \/ BuildResult

Spec == Init /\ [][Next]_vars

\* get_selection called twice with the same arguments: what the first call
\* did is kept in first_run, and the second call starts afresh. The database
\* does not change between the two calls.
InitTwice ==
    /\ pc = "preprocessing"
    /\ algorithm \in Algorithms
    /\ required_utxos \in SeqsUpTo(UtxoKinds, 1)
    /\ optional_utxos \in SeqsUpTo(UtxoKinds, MaxOptional)
    /\ Len(required_utxos) + Len(optional_utxos) <= MaxOptional
    /\ fee_rate \in {r \in FeeRates : r.num <= 1}
    /\ target_amount \in {2, MaxTarget}
    /\ weighted_drain_script \in DrainScripts
    /\ strategy_call = NoCall
    /\ fallback_call = NoCall
    /\ later_call = NoCall
    /\ first_run = NoRun
    /\ selection = NoSelection
    /\ remaining_amount = 0
    /\ result = NoResult
    /\ bnb = BnBIdle

\* The first call has returned; get_selection is called again
CallAgain ==
    /\ pc = "done"
    /\ ~first_run.done
    /\ first_run' = [done |-> TRUE, result |-> result,
                     strategy_call |-> strategy_call, fallback_call |-> fallback_call]
    /\ pc' = "preprocessing"
    /\ strategy_call' = NoCall
    /\ fallback_call' = NoCall
    /\ selection' = NoSelection
    /\ remaining_amount' = 0
    /\ result' = NoResult
    /\ UNCHANGED <<Inputs, later_call, bnb>>

\* The database answered the lookups of both calls the same way
UnchangedDatabase ==
    /\ strategy_call.queries = first_run.strategy_call.queries
    /\ strategy_call.blockheights = first_run.strategy_call.blockheights
    /\ (strategy_call.out.err = "Database")
           = (first_run.strategy_call.out.err = "Database")

\* OldestFirstCoinSelection looking the heights up in that database
CoinSelectOldestFirstSameDatabase ==
    /\ CoinSelectOldestFirst
    /\ first_run.done => UnchangedDatabase'

NextTwice ==
    \/ Preprocessing
    \/ RequiredOnly
    \/ CoinSelectLargestFirst
    \/ CoinSelectOldestFirstSameDatabase
    \/ CoinSelectBranchAndBound
    \/ CoinSelectSingleRandomDraw
    \/ Fallback
    \/ BuildResult
    \/ CallAgain

SpecTwice == InitTwice /\ [][NextTwice]_vars

\* get_selection with LargestFirstCoinSelection, for every change script of
\* DirectDrainScripts
InitDrain ==
    /\ pc = "preprocessing"
    /\ algorithm \in {a \in Algorithms : a.name = "LargestFirst"}
    /\ required_utxos \in SeqsUpTo(UtxoKinds, MaxRequired)
    /\ optional_utxos \in SeqsUpTo(UtxoKinds, MaxOptional)
    /\ fee_rate \in FeeRates
    /\ target_amount \in 0..MaxTarget
    /\ weighted_drain_script \in DirectDrainScripts
    /\ strategy_call = NoCall
    /\ fallback_call = NoCall
    /\ later_call = NoCall
    /\ first_run = NoRun
    /\ selection = NoSelection
    /\ remaining_amount = 0
    /\ result = NoResult
    /\ bnb = BnBIdle

NextDrain ==
    \/ Preprocessing
    \/ RequiredOnly
    \/ CoinSelectLargestFirst
    \/ BuildResult

SpecDrain == InitDrain /\ [][NextDrain]_vars

----------------------------------------------------------------------------
(* A direct call of BranchAndBoundCoinSelection::coin_select, as the tests   *)
(* test_bnb_function_* make it: the pool is every coin mapped to an output  *)
(* group, available_value is the sum of their effective values.             *)

DirectPool == OutputGroups("opt", optional_utxos, fee_rate)

\* The searches called directly: those of Algorithms and
\* BranchAndBoundCoinSelection::new(160), whose cost of change is 4 or 8
DirectBnBAlgorithms ==
    {a \in Algorithms : a.name = "BranchAndBound"}
        \cup { [name |-> "BranchAndBound", size_of_change |-> 160] }

InitBnB ==
    /\ pc = "bnb_call"
    /\ algorithm \in DirectBnBAlgorithms
    /\ required_utxos = <<>>
    /\ optional_utxos \in SeqsUpTo(DirectUtxoKinds, MaxOptional)
    /\ fee_rate \in FeeRates
    /\ target_amount \in 0..MaxTarget
    /\ weighted_drain_script \in DrainScripts
    /\ strategy_call = NoCall
    /\ fallback_call = NoCall
    /\ later_call = NoCall
    /\ first_run = NoRun
    /\ selection = NoSelection
    /\ remaining_amount = 0
    /\ result = NoResult
    /\ bnb = BnBIdle

\* From the entry of coin_select to the head of the loop: the sort
BnBEnter ==
    /\ pc = "bnb_call"
    /\ \E p \in BnBSortedPools(DirectPool) :
           bnb' = BnBInitial(p, target_amount, SumEff(DirectPool),
                             CostOfChange(algorithm.size_of_change, fee_rate))
    /\ pc' = "bnb_loop"
    /\ UNCHANGED <<Inputs, remaining_amount, later_call, first_run, strategy_call, fallback_call, selection, result>>

\* One iteration of `for _ in 0..BNB_TOTAL_TRIES`
BnBIterate ==
    /\ pc = "bnb_loop"
    /\ BnBLooping(bnb)
    /\ bnb' = BnBIteration(bnb)
    /\ UNCHANGED <<pc, Inputs, remaining_amount, later_call, first_run, strategy_call, fallback_call, selection, result>>

\* After the loop: the value coin_select returns
BnBExit ==
    /\ pc = "bnb_loop"
    /\ ~BnBLooping(bnb)
    /\ strategy_call' = Call("BranchAndBound", DirectPool, target_amount,
                             SumEff(DirectPool), BnBReturn(bnb))
    /\ pc' = "done"
    /\ UNCHANGED <<Inputs, remaining_amount, later_call, first_run, fallback_call, selection, result, bnb>>

NextBnB == BnBEnter \/ BnBIterate \/ BnBExit

SpecBnB == InitBnB /\ [][NextBnB]_vars

\* The direct calls over the coins of UtxoKinds: pools that use up the budget
InitBnBFair ==
    /\ InitBnB
    /\ algorithm \in Algorithms
    /\ \A i \in DOMAIN optional_utxos : optional_utxos[i] \in UtxoKinds

\* The call runs to its end: no step of it waits for anything
SpecBnBFair == InitBnBFair /\ [][NextBnB]_vars /\ WF_vars(NextBnB)

----------------------------------------------------------------------------
(* A direct call of coin_select on one of the three strategies that answer  *)
(* in one pass: CoinSelectionAlgorithm is a public trait, and a caller may  *)
(* hand it any pool, coins of negative effective value and pools short of   *)
(* the target included.                                                     *)

InitDirect ==
    /\ pc = "coin_select"
    /\ algorithm \in {a \in Algorithms : a.name # "BranchAndBound"}
    /\ required_utxos = <<>>
    /\ optional_utxos \in SeqsUpTo(DirectUtxoKinds, MaxOptional)
    /\ fee_rate \in FeeRates
    /\ target_amount \in 0..MaxTarget
    /\ weighted_drain_script \in DrainScripts
    /\ strategy_call = NoCall
    /\ fallback_call = NoCall
    /\ later_call = NoCall
    /\ first_run = NoRun
    /\ selection = NoSelection
    /\ remaining_amount = 0
    /\ result = NoResult
    /\ bnb = BnBIdle

\* The call returns: its arguments and its value are kept in strategy_call
DirectReturn(call) ==
    /\ strategy_call' = call
    /\ pc' = "done"
    /\ UNCHANGED <<Inputs, remaining_amount, later_call, first_run, fallback_call, selection, result, bnb>>

DirectLargestFirst ==
    /\ pc = "coin_select"
    /\ algorithm.name = "LargestFirst"
    /\ \E out \in LargestFirstCoinSelect(DirectPool, target_amount) :
           DirectReturn(Call("LargestFirst", DirectPool, target_amount,
                             SumEff(DirectPool), out))

DirectOldestFirst ==
    /\ pc = "coin_select"
    /\ algorithm.name = "OldestFirst"
    /\ \E database \in [Txids -> DbAnswers] :
         \E out \in OldestFirstCoinSelect(DirectPool, target_amount, database) :
           DirectReturn(
             [Call("OldestFirst", DirectPool, target_amount, SumEff(DirectPool), out)
                EXCEPT !.queries = Blockheights(DirectPool, database).queries,
                       !.blockheights = Blockheights(DirectPool, database).table,
                       !.database = database])

DirectSingleRandomDraw ==
    /\ pc = "coin_select"
    /\ algorithm.name = "SingleRandomDraw"
    /\ \E out \in SingleRandomDrawCoinSelect(DirectPool, target_amount) :
           DirectReturn(Call("SingleRandomDraw", DirectPool, target_amount,
                             SumEff(DirectPool), out))

NextDirect == DirectLargestFirst \/ DirectOldestFirst \/ DirectSingleRandomDraw

SpecDirect == InitDirect /\ [][NextDirect]_vars

\* Two calls of OldestFirstCoinSelection::coin_select, one after the other,
\* with the same pool and target; the database may have changed in between.
\* The lookups do not depend on the fee rate or the target: one rate and the
\* two extreme targets are enough.

InitOldestTwice ==
    /\ pc = "first_call"
    /\ algorithm \in {a \in Algorithms : a.name = "OldestFirst"}
    /\ required_utxos = <<>>
    /\ optional_utxos \in SeqsUpTo(UtxoKinds, MaxOptional)
    /\ fee_rate \in {r \in FeeRates : r.num = 1}
    /\ target_amount \in {0, MaxTarget}
    /\ weighted_drain_script \in DrainScripts
    /\ strategy_call = NoCall
    /\ fallback_call = NoCall
    /\ later_call = NoCall
    /\ first_run = NoRun
    /\ selection = NoSelection
    /\ remaining_amount = 0
    /\ result = NoResult
    /\ bnb = BnBIdle

\* One call: `blockheights` is built from an empty HashMap inside the call
OldestFirstCall(database, out) ==
    [Call("OldestFirst", DirectPool, target_amount, SumEff(DirectPool), out)
        EXCEPT !.queries = Blockheights(DirectPool, database).queries,
               !.blockheights = Blockheights(DirectPool, database).table,
               !.database = database]

OldestFirstFirstCall ==
    /\ pc = "first_call"
    /\ \E database \in [Txids -> DbAnswers] :
         \E out \in OldestFirstCoinSelect(DirectPool, target_amount, database) :
           strategy_call' = OldestFirstCall(database, out)
    /\ pc' = "later_call"
    /\ UNCHANGED <<Inputs, remaining_amount, later_call, first_run, fallback_call, selection,
                   result, bnb>>

OldestFirstLaterCall ==
    /\ pc = "later_call"
    /\ \E database \in [Txids -> DbAnswers] :
         \E out \in OldestFirstCoinSelect(DirectPool, target_amount, database) :
           later_call' = OldestFirstCall(database, out)
    /\ pc' = "done"
    /\ UNCHANGED <<Inputs, remaining_amount, first_run, strategy_call, fallback_call,
                   selection, result, bnb>>

NextOldestTwice == OldestFirstFirstCall \/ OldestFirstLaterCall

SpecOldestTwice == InitOldestTwice /\ [][NextOldestTwice]_vars

\* Two calls of LargestFirstCoinSelection or BranchAndBoundCoinSelection with
\* the same target and fee rate, the later one on the pool of the first in
\* another order; the effective values of the coins of the pool are pairwise
\* distinct (at the rates of FeeRates the kinds of DirectUtxoKinds are).

InitPermuted ==
    /\ pc = "first_call"
    /\ algorithm \in {a \in Algorithms : a.name = "LargestFirst"} \cup DirectBnBAlgorithms
    /\ required_utxos = <<>>
    /\ fee_rate \in FeeRates
    /\ optional_utxos \in
           { pool \in SeqsUpTo(DirectUtxoKinds, MaxOptional) :
               \A i \in DOMAIN pool : \A j \in DOMAIN pool :
                   i # j => EffectiveValueKeys(OutputGroups("opt", pool, fee_rate))[i]
                              # EffectiveValueKeys(OutputGroups("opt", pool, fee_rate))[j] }
    /\ target_amount \in 0..MaxTarget
    /\ weighted_drain_script \in DrainScripts
    /\ strategy_call = NoCall
    /\ fallback_call = NoCall
    /\ later_call = NoCall
    /\ first_run = NoRun
    /\ selection = NoSelection
    /\ remaining_amount = 0
    /\ result = NoResult
    /\ bnb = BnBIdle

\* algorithm.coin_select(database, pool, fee_rate, target_amount, available_value)
DirectCoinSelect(pool) ==
    IF algorithm.name = "LargestFirst"
    THEN LargestFirstCoinSelect(pool, target_amount)
    ELSE BranchAndBoundCoinSelect(algorithm.size_of_change, pool, fee_rate,
                                  target_amount, SumEff(pool))

PermutedFirstCall ==
    /\ pc = "first_call"
    /\ \E out \in DirectCoinSelect(DirectPool) :
           strategy_call' = Call(algorithm.name, DirectPool, target_amount,
                                 SumEff(DirectPool), out)
    /\ pc' = "later_call"
    /\ UNCHANGED <<Inputs, remaining_amount, later_call, first_run, fallback_call, selection,
                   result, bnb>>

PermutedLaterCall ==
    /\ pc = "later_call"
    /\ \E pool \in Shuffles(DirectPool) :
         \E out \in DirectCoinSelect(pool) :
           later_call' = Call(algorithm.name, pool, target_amount, SumEff(pool), out)
    /\ pc' = "done"
    /\ UNCHANGED <<Inputs, remaining_amount, first_run, strategy_call, fallback_call,
                   selection, result, bnb>>

NextPermuted == PermutedFirstCall \/ PermutedLaterCall

SpecPermuted == InitPermuted /\ [][NextPermuted]_vars

----------------------------------------------------------------------------
(* decide_change followed by Waste::calculate, called directly as the tests *)
(* test_calculate_waste_* call them: the selected groups are the coins of   *)
(* optional_utxos mapped to output groups at fee_rate.                      *)

InitExcess ==
    /\ pc = "decide_change"
    /\ algorithm \in {a \in Algorithms : a.name = "LargestFirst"}
    /\ required_utxos = <<>>
    /\ optional_utxos \in SeqsUpTo(DirectUtxoKinds, MaxOptional)
    /\ fee_rate \in FeeRates \cup {LONG_TERM_FEE_RATE}
    /\ target_amount = 0
    /\ weighted_drain_script \in DirectDrainScripts
    /\ strategy_call = NoCall
    /\ fallback_call = NoCall
    /\ later_call = NoCall
    /\ first_run = NoRun
    /\ selection = NoSelection
    /\ remaining_amount \in 0..MaxRemaining
    /\ result = NoResult
    /\ bnb = BnBIdle

\* let excess = decide_change(remaining_amount, fee_rate, drain_script)
DecideChange ==
    /\ pc = "decide_change"
    /\ result' = [result EXCEPT
                     !.excess = decide_change(remaining_amount, fee_rate,
                                              weighted_drain_script)]
    /\ pc' = "calculate_waste"
    /\ UNCHANGED <<Inputs, remaining_amount, later_call, first_run, strategy_call, fallback_call, selection, bnb>>

\* let waste = Waste::calculate(&utxos, drain_satisfaction_weight, &excess)
CalculateWaste ==
    /\ pc = "calculate_waste"
    /\ result' = [result EXCEPT
                     !.selected = DirectPool,
                     !.waste = Waste_calculate(DirectPool,
                                               weighted_drain_script.satisfaction_weight,
                                               result.excess)]
    /\ pc' = "waste_done"
    /\ UNCHANGED <<Inputs, remaining_amount, later_call, first_run, strategy_call, fallback_call, selection, bnb>>

NextExcess == DecideChange \/ CalculateWaste

SpecExcess == InitExcess /\ [][NextExcess]_vars

----------------------------------------------------------------------------
(* Quantities of the arguments of get_selection, computed coin by coin *)

Sum(ints) ==
    LET g[i \in 0..Len(ints)] == IF i = 0 THEN 0 ELSE g[i - 1] + ints[i]
    IN  g[Len(ints)]

\* The fee to spend one coin at fee_rate
CoinFee(u) == fee_wu(fee_rate, TXIN_BASE_WEIGHT + u.satisfaction_weight)

\* The value of a coin minus the fee to spend it
CoinEffectiveValue(u) == u.value - CoinFee(u)

\* Sums over a list of coins: raw values, fees and effective values
TotalValue(coins) == Sum([i \in DOMAIN coins |-> coins[i].value])

TotalFee(coins) == Sum([i \in DOMAIN coins |-> CoinFee(coins[i])])

TotalEffective(coins) == Sum([i \in DOMAIN coins |-> CoinEffectiveValue(coins[i])])

\* The optional coins whose effective value is strictly positive
WorthSpending == SelectSeq(optional_utxos, LAMBDA u : CoinEffectiveValue(u) > 0)

\* Effective value of all required coins plus all optional coins worth spending
TotalEffectiveValue ==
    TotalEffective(required_utxos) + TotalEffective(WorthSpending)

Returned == pc = "done"

ReturnedOk == pc = "done" /\ result.kind = "Ok"

ReturnedInsufficientFunds ==
    pc = "done" /\ result.kind = "Err" /\ result.error = "InsufficientFunds"

----------------------------------------------------------------------------
(* Properties of get_selection *)

\* C1: when the effective value of the required coins plus the optional coins
\* of positive effective value reaches the target, get_selection returns Ok
\* with every strategy, and the raw value of the selected coins minus
\* fee_amount is at least target_amount.
C1_NeverUnderFunded ==
    (Returned /\ TotalEffectiveValue >= target_amount)
        => /\ result.kind = "Ok"
           /\ SumValue(result.selected) - result.fee_amount >= target_amount

\* An Ok result that needed coins of the optional pool next to a required coin
C1_Witness ==
    /\ ReturnedOk
    /\ TotalEffectiveValue >= target_amount
    /\ strategy_call.called
    /\ Len(strategy_call.out.selected) >= 2
    /\ Len(required_utxos) >= 1
    /\ fee_rate.num > 0

\* C2: get_selection returns InsufficientFunds exactly when the effective
\* value of the required coins plus the optional coins of positive effective
\* value is negative or below target_amount, and Ok in every other case.
C2_InsufficientFundsIff ==
    Returned =>
        IF TotalEffectiveValue < 0 \/ TotalEffectiveValue < target_amount
        THEN result.kind = "Err" /\ result.error = "InsufficientFunds"
        ELSE result.kind = "Ok"

\* InsufficientFunds although the raw values would cover the target
C2_Witness ==
    /\ ReturnedInsufficientFunds
    /\ TotalEffectiveValue >= 0
    /\ TotalValue(required_utxos \o optional_utxos) >= target_amount

\* C3 as stated: a target above the raw value of all coins passed in fails
\* with InsufficientFunds whose `available` is the raw value of all coins
\* passed in.
C3_AvailableIsSumOfAllCoins ==
    (Returned /\ target_amount > TotalValue(required_utxos \o optional_utxos))
        => /\ result.kind = "Err" /\ result.error = "InsufficientFunds"
           /\ result.available = TotalValue(required_utxos \o optional_utxos)

\* C3 amended: a target above the raw value of all coins passed in fails with
\* InsufficientFunds whose `available` is the raw value (not the effective
\* value) of the required coins and of the optional coins of strictly positive
\* effective value.
C3_AvailableIsSumOfCountedCoins ==
    (Returned /\ target_amount > TotalValue(required_utxos \o optional_utxos))
        => /\ result.kind = "Err" /\ result.error = "InsufficientFunds"
           /\ result.available = TotalValue(required_utxos \o WorthSpending)

\* The failure, with an optional coin that has a value but is not worth spending
C3_Witness ==
    /\ ReturnedInsufficientFunds
    /\ target_amount > TotalValue(required_utxos \o optional_utxos)
    /\ TotalValue(WorthSpending) < TotalValue(optional_utxos)
    /\ TotalFee(required_utxos \o WorthSpending) > 0

\* C4: in an InsufficientFunds error, `available` is the raw value of all
\* required coins and of the optional coins of strictly positive effective
\* value, and `needed` is target_amount plus the fees of exactly those coins.
C4_NeededAndAvailable ==
    ReturnedInsufficientFunds
        => /\ result.available = TotalValue(required_utxos \o WorthSpending)
           /\ result.needed =
                  target_amount + TotalFee(required_utxos \o WorthSpending)

\* The error with a required coin of negative effective value, an optional
\* coin that is not worth spending and one that is
C4_Witness ==
    /\ ReturnedInsufficientFunds
    /\ \E i \in DOMAIN required_utxos : CoinEffectiveValue(required_utxos[i]) < 0
    /\ \E i \in DOMAIN optional_utxos : CoinEffectiveValue(optional_utxos[i]) <= 0
    /\ \E i \in DOMAIN optional_utxos : CoinEffectiveValue(optional_utxos[i]) > 0

\* C5: the selected list of an Ok result is a selection of entries of the
\* optional list, each at most once, followed by every required coin exactly
\* once in input order, whatever the target and the sign of their effective
\* value.
C5_SelectedIsOptionalThenRequired ==
    ReturnedOk =>
        LET selected == result.selected
            n == Len(selected) - Len(required_utxos)
        IN  /\ n >= 0
            /\ \A i \in 1..n :
                   /\ selected[i].src = "opt"
                   /\ selected[i].idx \in DOMAIN optional_utxos
                   /\ selected[i].value = optional_utxos[selected[i].idx].value
                   /\ selected[i].txid = optional_utxos[selected[i].idx].txid
                   /\ \A j \in 1..n : selected[j].idx = selected[i].idx => j = i
            /\ \A k \in DOMAIN required_utxos :
                   /\ selected[n + k].src = "req"
                   /\ selected[n + k].idx = k
                   /\ selected[n + k].value = required_utxos[k].value
                   /\ selected[n + k].txid = required_utxos[k].txid

\* Optional coins selected in front of two required coins, one of them of
\* negative effective value
C5_Witness ==
    /\ ReturnedOk
    /\ Len(required_utxos) = 2
    /\ CoinEffectiveValue(required_utxos[1]) < 0
    /\ Len(result.selected) >= 4

\* C6: an optional coin of zero or negative effective value is in no pool
\* handed to a strategy and, as an optional entry, in no selected list.
C6_WorthlessOptionalNeverUsed ==
    /\ \A call \in {strategy_call, fallback_call} :
           call.called =>
               \A i \in DOMAIN call.optional_utxos :
                   /\ call.optional_utxos[i].src = "opt"
                   /\ CoinEffectiveValue(optional_utxos[call.optional_utxos[i].idx]) > 0
    /\ ReturnedOk =>
           \A i \in DOMAIN result.selected :
               result.selected[i].src = "opt" =>
                   CoinEffectiveValue(optional_utxos[result.selected[i].idx]) > 0

\* An Ok result of a strategy over a list holding a coin of effective value
\* zero, which is selected as a required coin
C6_Witness ==
    /\ ReturnedOk
    /\ strategy_call.called
    /\ Len(strategy_call.out.selected) >= 1
    /\ \E i \in DOMAIN optional_utxos, k \in DOMAIN required_utxos :
           /\ CoinEffectiveValue(optional_utxos[i]) <= 0
           /\ required_utxos[k] = optional_utxos[i]

\* C7: when the effective value of the required coins alone meets or exceeds
\* target_amount, equality included, neither the chosen strategy nor the
\* fallback is invoked and the selected list is the required coins.
C7_RequiredEnoughSkipsStrategy ==
    (pc \in {"fallback", "excess", "done"}
        /\ TotalEffective(required_utxos) >= target_amount)
        => /\ ~strategy_call.called
           /\ ~fallback_call.called
           /\ ReturnedOk => result.selected = RequiredGroups

\* C8: when the chosen strategy returns an error, SingleRandomDraw is run over
\* the same filtered optional pool with the same reduced target; the caller
\* never sees the strategy's error, and sees an error other than the
\* feasibility failure only if the fallback failed.
C8_StrategyErrorRunsFallback ==
    /\ (pc \in {"excess", "done"} /\ strategy_call.called /\ ~strategy_call.out.ok)
           => /\ fallback_call.called
              /\ fallback_call.algorithm = "SingleRandomDraw"
              /\ fallback_call.optional_utxos = strategy_call.optional_utxos
              /\ fallback_call.target_amount = strategy_call.target_amount
              /\ fallback_call.target_amount
                     = target_amount - TotalEffective(required_utxos)
              /\ Len(fallback_call.optional_utxos) = Len(WorthSpending)
    /\ (Returned /\ result.kind = "Err")
           => /\ result.error \notin {"BnBTotalTriesExceeded", "BnBNoExactMatch", "Database"}
              /\ strategy_call.called => (fallback_call.called /\ ~fallback_call.out.ok)

\* Branch and bound found no match, the fallback selected the coins
C8_Witness ==
    /\ ReturnedOk
    /\ strategy_call.called
    /\ strategy_call.out.err = "BnBNoExactMatch"
    /\ fallback_call.called
    /\ Len(fallback_call.out.selected) >= 2

----------------------------------------------------------------------------
(* Properties of BranchAndBoundCoinSelection::coin_select, called directly *)

BnBReturned == pc = "done" /\ strategy_call.called

\* The sums of the values of the sub-collections of the pool
SubsetSums ==
    { Sum([i \in DOMAIN optional_utxos |-> IF i \in I THEN optional_utxos[i].value ELSE 0]) :
        I \in SUBSET (DOMAIN optional_utxos) }

\* The loop ended because all BNB_TOTAL_TRIES iterations were used
CutByBudget == bnb.status = "loop" /\ bnb.tries = BNB_TOTAL_TRIES

\* C9: at fee rate zero and size_of_change 0, for a target that is the sum of
\* the values of some sub-collection of the pool, a search not cut by the
\* iteration budget returns a selection whose total value is the target.
C9_ExactMatchRecovered ==
    (BnBReturned /\ fee_rate.num = 0 /\ algorithm.size_of_change = 0
        /\ target_amount \in SubsetSums /\ ~CutByBudget)
        => /\ strategy_call.out.ok
           /\ SumValue(strategy_call.out.selected) = target_amount

\* C10: when coin_select returns Ok, the effective value of the returned
\* groups is in [target_amount, target_amount + cost_of_change], with
\* cost_of_change the size of change times the fee rate in sat/vbyte, truncated,
\* and the returned fee is the sum of the fees of the returned groups.
C10_OkIsInRange ==
    (BnBReturned /\ strategy_call.out.ok)
        => LET selected == strategy_call.out.selected
               value == TotalEffective(selected)
               cost_of_change == (algorithm.size_of_change * fee_rate.num) \div fee_rate.den
           IN  /\ value >= target_amount
               /\ value <= target_amount + cost_of_change
               /\ strategy_call.out.fee = TotalFee(selected)

\* An Ok result above the target, within a cost of change that was truncated
C10_Witness ==
    /\ BnBReturned
    /\ strategy_call.out.ok
    /\ SumEff(strategy_call.out.selected) > target_amount
    /\ (algorithm.size_of_change * fee_rate.num) % fee_rate.den # 0
    /\ Len(strategy_call.out.selected) >= 2

\* Some sub-collection of the pool has an effective value in
\* [target_amount, target_amount + cost_of_change]
SomeSubsetInRange ==
    \E I \in SUBSET (DOMAIN optional_utxos) :
        LET value == Sum([i \in DOMAIN optional_utxos |->
                            IF i \in I THEN CoinEffectiveValue(optional_utxos[i]) ELSE 0])
            cost_of_change == (algorithm.size_of_change * fee_rate.num) \div fee_rate.den
        IN  value >= target_amount /\ value <= target_amount + cost_of_change

\* C11: coin_select terminates, after at most BNB_TOTAL_TRIES iterations of
\* its search loop, and a search that used up the budget over a pool with no
\* subset in range returns BnBTotalTriesExceeded.
C11_TerminatesWithinBudget ==
    /\ <>(pc = "done")
    /\ [](bnb.tries <= BNB_TOTAL_TRIES)
    /\ []((BnBReturned /\ CutByBudget /\ ~SomeSubsetInRange)
              => strategy_call.out.err = "BnBTotalTriesExceeded")

\* The budget used up over a pool of three coins without a subset in range
C11_Witness ==
    /\ BnBReturned
    /\ CutByBudget
    /\ ~SomeSubsetInRange
    /\ Len(optional_utxos) = MaxOptional
    /\ strategy_call.out.err = "BnBTotalTriesExceeded"

\* C12: BnBTotalTriesExceeded is returned only when the whole budget was used
\* without reaching a selection in range, BnBNoExactMatch only when the tree was
\* enumerated without reaching one, and a search that reached a selection in
\* range, the empty selection for target 0 included, returns Ok.
C12_ErrorsHaveExactCauses ==
    BnBReturned =>
        /\ strategy_call.out.err = "BnBTotalTriesExceeded"
               => (CutByBudget /\ ~bnb.best_selection_value.some)
        /\ strategy_call.out.err = "BnBNoExactMatch"
               => (bnb.status = "BnBNoExactMatch" /\ ~bnb.best_selection_value.some)
        /\ bnb.best_selection_value.some => strategy_call.out.ok

----------------------------------------------------------------------------
(* Properties of the strategies called directly *)

\* The coins a direct call returned, in the order returned: their positions
\* in optional_utxos, and the coins themselves
ReturnedIdx ==
    [i \in DOMAIN strategy_call.out.selected |-> strategy_call.out.selected[i].idx]

ReturnedCoins == [i \in DOMAIN ReturnedIdx |-> optional_utxos[ReturnedIdx[i]]]

ReturnedSet == {ReturnedIdx[i] : i \in DOMAIN ReturnedIdx}

\* The positions of the coins of the pool the call did not return
LeftSet == (DOMAIN optional_utxos) \ ReturnedSet

\* The returned coins without the last one
AllButLast == SubSeq(ReturnedCoins, 1, Len(ReturnedCoins) - 1)

DirectOk(name) ==
    /\ pc = "done"
    /\ strategy_call.called
    /\ strategy_call.algorithm = name
    /\ strategy_call.out.ok

\* C13: LargestFirstCoinSelection returns the shortest prefix of the pool in
\* descending order of effective value whose raw value reaches the target plus
\* the fees of the prefix: the returned coins are distinct coins of the pool in
\* descending order, each of effective value >= every coin left out; without
\* the last returned coin the raw value is below the target plus the remaining
\* fees; if a coin is left out, the raw value returned reaches the target plus
\* the fees; and the fee returned is the sum of the fees of the returned coins.
C13_LargestFirstShortestPrefix ==
    DirectOk("LargestFirst") =>
        /\ Cardinality(ReturnedSet) = Len(ReturnedIdx)
        /\ \A i \in 1..(Len(ReturnedCoins) - 1) :
               CoinEffectiveValue(ReturnedCoins[i])
                   >= CoinEffectiveValue(ReturnedCoins[i + 1])
        /\ \A i \in ReturnedSet : \A j \in LeftSet :
               CoinEffectiveValue(optional_utxos[i])
                   >= CoinEffectiveValue(optional_utxos[j])
        /\ Len(ReturnedCoins) > 0 =>
               TotalValue(AllButLast) < target_amount + TotalFee(AllButLast)
        /\ LeftSet # {} =>
               TotalValue(ReturnedCoins) >= target_amount + TotalFee(ReturnedCoins)
        /\ strategy_call.out.fee = TotalFee(ReturnedCoins)

\* Two coins returned at a positive fee rate, a smaller coin left out, from a
\* pool that did not list the largest coin first
C13_Witness ==
    /\ DirectOk("LargestFirst")
    /\ fee_rate.num > 0
    /\ Len(ReturnedCoins) = 2
    /\ LeftSet # {}
    /\ ReturnedIdx[1] # 1
    /\ \E j \in LeftSet :
           CoinEffectiveValue(optional_utxos[j]) < CoinEffectiveValue(ReturnedCoins[2])

\* The confirmation height the database holds for the coin at position i of
\* the pool: u32::MAX when the transaction is unknown or unconfirmed
Height(i) ==
    LET answer == strategy_call.database[optional_utxos[i].txid]
    IN  IF answer.some THEN answer.height ELSE U32_MAX

\* C14: OldestFirstCoinSelection selects coins in ascending confirmation
\* height, a coin whose transaction is unknown to the database or unconfirmed
\* counting as height u32::MAX: the returned coins are distinct coins of the
\* pool in ascending order of height, no coin left out has a strictly smaller
\* height than a returned coin, and the selection stops at the first point
\* where the raw value reaches the target plus the accumulated fees.
C14_OldestFirstAscendingHeight ==
    DirectOk("OldestFirst") =>
        /\ Cardinality(ReturnedSet) = Len(ReturnedIdx)
        /\ \A i \in 1..(Len(ReturnedIdx) - 1) :
               Height(ReturnedIdx[i]) <= Height(ReturnedIdx[i + 1])
        /\ \A i \in ReturnedSet : \A j \in LeftSet : ~(Height(j) < Height(i))
        /\ Len(ReturnedCoins) > 0 =>
               TotalValue(AllButLast) < target_amount + TotalFee(AllButLast)
        /\ LeftSet # {} =>
               TotalValue(ReturnedCoins) >= target_amount + TotalFee(ReturnedCoins)
        /\ strategy_call.out.fee = TotalFee(ReturnedCoins)

\* The pool lists first a coin the database does not know; it is left out,
\* and only confirmed coins listed after it are returned
C14_Witness ==
    /\ DirectOk("OldestFirst")
    /\ Len(optional_utxos) = MaxOptional
    /\ ~strategy_call.database[optional_utxos[1].txid].some
    /\ 1 \in LeftSet
    /\ Len(ReturnedIdx) >= 1
    /\ \A i \in ReturnedSet : Height(i) < U32_MAX

\* C18: SingleRandomDrawCoinSelection returns, whatever order the shuffle
\* gives, the shortest prefix of that order whose effective value reaches the
\* target: the returned coins are distinct coins of the pool, without the last
\* one their effective value is below the target, and when the effective value
\* of the whole pool reaches the target, or a coin is left out, the effective
\* value returned reaches the target. The fee returned is the sum of the fees
\* of the returned coins.
C18_SingleRandomDrawShortestPrefix ==
    DirectOk("SingleRandomDraw") =>
        /\ Cardinality(ReturnedSet) = Len(ReturnedIdx)
        /\ Len(ReturnedCoins) > 0 => TotalEffective(AllButLast) < target_amount
        /\ TotalEffective(optional_utxos) >= target_amount =>
               TotalEffective(ReturnedCoins) >= target_amount
        /\ LeftSet # {} => TotalEffective(ReturnedCoins) >= target_amount
        /\ strategy_call.out.fee = TotalFee(ReturnedCoins)

\* A shuffle that moved the first coin of the pool away from the front, two
\* coins returned that reach the target exactly, one coin left out
C18_Witness ==
    /\ DirectOk("SingleRandomDraw")
    /\ Len(ReturnedIdx) = 2
    /\ ReturnedIdx[1] # 1
    /\ LeftSet # {}
    /\ TotalEffective(ReturnedCoins) = target_amount

\* C19: SingleRandomDrawCoinSelection run over a pool whose total effective
\* value is below the target fails with InsufficientFunds; it does not return
\* Ok with a selection short of the target.
C19_InsufficientPoolFails ==
    (/\ pc = "done"
     /\ strategy_call.algorithm = "SingleRandomDraw"
     /\ TotalEffective(optional_utxos) < target_amount)
        => (~strategy_call.out.ok /\ strategy_call.out.err = "InsufficientFunds")

----------------------------------------------------------------------------
(* Properties of decide_change and Waste::calculate *)

\* decide_change has returned
ExcessDecided == pc \in {"calculate_waste", "waste_done"}

\* The fee of the change output: the serialized script (one length byte and
\* the script) and the 8 bytes of the value, at fee_rate, rounded up
ChangeFee ==
    LET bytes == 1 + weighted_drain_script.script_len + 8
    IN  (fee_rate.num * bytes + fee_rate.den - 1) \div fee_rate.den

\* remaining_amount saturating-minus the fee of the change output
DrainValue == IF remaining_amount > ChangeFee THEN remaining_amount - ChangeFee ELSE 0

\* C15: decide_change(remaining, fee_rate, script), with change_fee the fee
\* of the change output and drain = remaining saturating-minus change_fee:
\* when drain is below the dust threshold of the script it returns NoChange
\* with the dust threshold, change_fee and remaining unmodified; otherwise,
\* drain equal to the threshold included, it returns Change with
\* amount = remaining - change_fee and fee = change_fee.
C15_DecideChange ==
    ExcessDecided =>
        IF DrainValue < weighted_drain_script.dust_value
        THEN /\ result.excess.kind = "NoChange"
             /\ result.excess.dust_threshold = weighted_drain_script.dust_value
             /\ result.excess.change_fee = ChangeFee
             /\ result.excess.remaining_amount = remaining_amount
        ELSE /\ result.excess.kind = "Change"
             /\ result.excess.amount = remaining_amount - ChangeFee
             /\ result.excess.fee = ChangeFee

\* Waste::calculate has returned
WasteCalculated == pc = "waste_done"

\* The fee, at the long-term rate of 5 sat/vb, of an input of the given
\* satisfaction weight: weight units to virtual bytes, rounded up
LongTermInputFee(satisfaction_weight) ==
    LET weight == TXIN_BASE_WEIGHT + satisfaction_weight
    IN  (5 * weight + 3) \div 4

\* Per selected coin: its fee at fee_rate minus its fee at the long-term rate
TimingCost ==
    Sum([i \in DOMAIN optional_utxos |->
            CoinFee(optional_utxos[i])
                - LongTermInputFee(optional_utxos[i].satisfaction_weight)])

\* C16: Waste::calculate returns timing_cost + creation_cost: timing_cost is
\* the sum over the selected groups of the group's fee at the current rate
\* minus the fee of the same input weight at the long-term rate; creation_cost
\* is remaining_amount when the excess is NoChange, and the change fee plus
\* the long-term fee of an input of weight TXIN_BASE_WEIGHT + drain
\* satisfaction weight when the excess is Change.
C16_WasteIsTimingPlusCreation ==
    WasteCalculated =>
        result.waste = TimingCost
            + (IF result.excess.kind = "NoChange"
               THEN remaining_amount
               ELSE ChangeFee
                    + LongTermInputFee(weighted_drain_script.satisfaction_weight))

\* A change output is created, over two selected coins whose fees at the
\* current rate are below their long-term fees
C16_Witness ==
    /\ WasteCalculated
    /\ result.excess.kind = "Change"
    /\ result.excess.amount > 0
    /\ Len(result.selected) = 2
    /\ TimingCost < 0
    /\ ChangeFee > 0
    /\ weighted_drain_script.satisfaction_weight > 0

\* C17: for any selected groups built at the long-term fee rate and a
\* remaining amount of 0 passed through decide_change, Waste::calculate
\* returns exactly Waste(0).
C17_NoWasteAtLongTermRate ==
    (WasteCalculated /\ fee_rate = LONG_TERM_FEE_RATE /\ remaining_amount = 0)
        => result.waste = 0

----------------------------------------------------------------------------
(* Properties of the CoinSelectionResult *)

\* The coin of the arguments of get_selection a selected group stands for
SelectedCoin(og) ==
    IF og.src = "req" THEN required_utxos[og.idx] ELSE optional_utxos[og.idx]

SelectedCoins == [i \in DOMAIN result.selected |-> SelectedCoin(result.selected[i])]

\* C20: in every successful CoinSelectionResult, fee_amount is the sum, over
\* exactly the coins in `selected` (required and optional, each counted
\* once), of the fee to spend the coin at the given fee rate.
C20_FeeAmountIsSumOfSelectedFees ==
    ReturnedOk =>
        /\ \A i \in DOMAIN result.selected : \A j \in DOMAIN result.selected :
               (/\ result.selected[i].src = result.selected[j].src
                /\ result.selected[i].idx = result.selected[j].idx) => i = j
        /\ result.fee_amount = TotalFee(SelectedCoins)

\* A required coin and an optional coin selected, another optional coin left
\* out, each selected coin paying a fee
C20_Witness ==
    /\ ReturnedOk
    /\ \E i \in DOMAIN result.selected : result.selected[i].src = "req"
    /\ \E i \in DOMAIN result.selected : result.selected[i].src = "opt"
    /\ Len(result.selected) < Len(required_utxos) + Len(optional_utxos)
    /\ \A i \in DOMAIN SelectedCoins : CoinFee(SelectedCoins[i]) > 0

----------------------------------------------------------------------------
(* Properties of the branch and bound search *)

\* The head of an iteration of the search loop
AtIteration == pc = "bnb_loop" /\ bnb.status = "loop"

\* The effective value, computed from the coin, of the coin at position i of
\* the sorted pool of the search
SortedCoinValue(i) == CoinEffectiveValue(optional_utxos[bnb.optional_utxos[i].idx])

\* C21: at the start of every iteration of the branch and bound loop,
\* selected_value is the sum of the effective values of the coins marked
\* included in the decision stack, available_value is the sum of the effective
\* values of the coins at the positions past the stack (not yet decided), and
\* the stack is never longer than the pool, so that a forward step never
\* indexes past the end of the pool; available_value was passed as the total
\* effective value of the pool.
C21_LoopInvariant ==
    /\ bnb.status # "panic"
    /\ AtIteration =>
        /\ bnb.selected_value =
               Sum([i \in DOMAIN bnb.current_selection |->
                       IF bnb.current_selection[i] THEN SortedCoinValue(i) ELSE 0])
        /\ bnb.available_value =
               Sum([i \in DOMAIN bnb.optional_utxos |->
                       IF i > Len(bnb.current_selection) THEN SortedCoinValue(i) ELSE 0])
        /\ Len(bnb.current_selection) <= Len(bnb.optional_utxos)

\* An iteration starts with every coin of a full pool decided, some included
\* and the last one excluded after a backtrack
C21_Witness ==
    /\ AtIteration
    /\ Len(bnb.optional_utxos) = MaxOptional
    /\ Len(bnb.current_selection) = MaxOptional
    /\ bnb.current_selection[1]
    /\ ~bnb.current_selection[MaxOptional]
    /\ fee_rate.num > 0

\* The search left the loop because the walk back emptied the decision
\* stack: every branch was traversed or pruned within the budget
TreeExhausted == bnb.status = "break" /\ bnb.current_selection = <<>>

\* The total effective values of the sub-collections of the pool that lie in
\* [target_amount, target_amount + cost_of_change]
InRangeSums ==
    LET cost_of_change == (algorithm.size_of_change * fee_rate.num) \div fee_rate.den
        sums == { Sum([i \in DOMAIN optional_utxos |->
                         IF i \in I THEN CoinEffectiveValue(optional_utxos[i]) ELSE 0]) :
                    I \in SUBSET (DOMAIN optional_utxos) }
    IN  { v \in sums : v >= target_amount /\ v <= target_amount + cost_of_change }

\* C22: when the search over a pool of strictly positive effective values
\* ends by exhausting the decision tree within the budget and returns Ok, the
\* selection returned has the lowest total effective value among all the
\* sub-collections of the pool whose total is in
\* [target_amount, target_amount + cost_of_change].
C22_ExhaustedSearchReturnsLowest ==
    (/\ BnBReturned
     /\ TreeExhausted
     /\ strategy_call.out.ok
     /\ \A i \in DOMAIN optional_utxos : CoinEffectiveValue(optional_utxos[i]) > 0)
        => /\ TotalEffective(ReturnedCoins) \in InRangeSums
           /\ \A v \in InRangeSums : TotalEffective(ReturnedCoins) <= v

\* The whole tree of a three-coin pool was searched, sub-collections of
\* different totals are in range, and the lowest one, found after a higher
\* one, leaves the largest coin out
C22_Witness ==
    /\ BnBReturned
    /\ TreeExhausted
    /\ strategy_call.out.ok
    /\ target_amount > 0
    /\ Len(optional_utxos) = MaxOptional
    /\ \A i \in DOMAIN optional_utxos : CoinEffectiveValue(optional_utxos[i]) > 0
    /\ Cardinality(InRangeSums) >= 2
    /\ ~bnb.best_selection[1]

\* What the excess accounts for: remaining_amount of a NoChange, amount + fee
\* of a Change
ExcessTotal ==
    IF result.excess.kind = "NoChange"
    THEN result.excess.remaining_amount
    ELSE result.excess.amount + result.excess.fee

\* C23: value conservation of a successful get_selection: the raw value of
\* the selected coins is target_amount + fee_amount + R, R being
\* remaining_amount for NoChange and amount + fee for Change; the remaining
\* amount handed to decide_change is the total effective value minus the
\* target (the saturating subtraction never clamps), and a Change never has
\* a fee above the remaining amount.
C23_ValueConservation ==
    ReturnedOk =>
        /\ TotalValue(SelectedCoins) = target_amount + result.fee_amount + ExcessTotal
        /\ remaining_amount = TotalEffective(SelectedCoins) - target_amount
        /\ result.excess.kind = "Change" => result.excess.fee <= remaining_amount

----------------------------------------------------------------------------
(* Properties of the order of the steps of get_selection *)

\* C24: when get_selection fails the feasibility check it returns
\* InsufficientFunds before any strategy's coin_select is called and before
\* any database lookup is made, and no fallback attempt follows: in a call
\* whose coins cannot reach the target no state has a strategy or fallback
\* call or a database query behind it, and the call ends with
\* InsufficientFunds; an InsufficientFunds result is final.
C24_GateComesFirst ==
    /\ TotalEffectiveValue < target_amount =>
           /\ ~strategy_call.called
           /\ ~fallback_call.called
           /\ strategy_call.queries = <<>>
           /\ fallback_call.queries = <<>>
           /\ selection = NoSelection
           /\ Returned => ReturnedInsufficientFunds
    /\ (result.kind = "Err" /\ result.error = "InsufficientFunds") =>
           /\ Returned
           /\ ~strategy_call.called
           /\ ~fallback_call.called

\* OldestFirst was chosen, the pool holds coins worth spending, and the call
\* has returned InsufficientFunds
C24_Witness ==
    /\ ReturnedInsufficientFunds
    /\ algorithm.name = "OldestFirst"
    /\ Len(WorthSpending) >= 2
    /\ ~strategy_call.called

\* The transaction ids of the coins of the pool
PoolTxids == {optional_utxos[i].txid : i \in DOMAIN optional_utxos}

\* The queries of one call: no transaction id asked twice, only ids of coins
\* of the pool, every id of the pool when no lookup failed, and the heights
\* kept are the answers the database of this call gave
QueriedOncePerTxid(call) ==
    /\ \A i \in DOMAIN call.queries : \A j \in DOMAIN call.queries :
           call.queries[i] = call.queries[j] => i = j
    /\ \A i \in DOMAIN call.queries : call.queries[i] \in PoolTxids
    /\ call.out.err # "Database" =>
           {call.queries[i] : i \in DOMAIN call.queries} = PoolTxids
    /\ call.out.err = "Database" =>
           /\ Len(call.queries) > 0
           /\ call.database[call.queries[Len(call.queries)]].err
    /\ \A t \in DOMAIN call.blockheights : call.blockheights[t] = call.database[t]

\* C25: within one OldestFirstCoinSelection::coin_select call the database is
\* queried at most once per distinct transaction id among the optional coins,
\* coins sharing a txid reusing the first lookup; no lookup result is carried
\* over to a later call, which asks the database again for every txid and
\* keeps the answers it is given then.
C25_OneLookupPerTxidPerCall ==
    /\ strategy_call.called => QueriedOncePerTxid(strategy_call)
    /\ later_call.called => QueriedOncePerTxid(later_call)

\* Two coins of the pool share a transaction id; both calls succeed, and the
\* later call is answered another height than the first one was
C25_Witness ==
    /\ later_call.called
    /\ strategy_call.out.ok
    /\ later_call.out.ok
    /\ Len(optional_utxos) > Cardinality(PoolTxids)
    /\ Cardinality(PoolTxids) = 2
    /\ \E t \in PoolTxids :
           /\ strategy_call.blockheights[t].some
           /\ later_call.blockheights[t].some
           /\ strategy_call.blockheights[t].height # later_call.blockheights[t].height

----------------------------------------------------------------------------
(* Properties of the errors *)

\* No sub-collection of the pool covers the target and its own fees: the
\* coins of positive effective value together stay below the target
PoolCannotCover ==
    Sum([i \in DOMAIN optional_utxos |->
            IF CoinEffectiveValue(optional_utxos[i]) > 0
            THEN CoinEffectiveValue(optional_utxos[i]) ELSE 0]) < target_amount

\* C28: LargestFirstCoinSelection::coin_select never returns an error: called
\* directly with a pool that cannot cover the target plus fees it returns Ok
\* with every coin of the pool and the sum of all their fees.
C28_LargestFirstNeverFails ==
    (pc = "done" /\ strategy_call.algorithm = "LargestFirst") =>
        /\ strategy_call.out.ok
        /\ PoolCannotCover =>
               /\ Len(ReturnedIdx) = Len(optional_utxos)
               /\ ReturnedSet = DOMAIN optional_utxos
               /\ strategy_call.out.fee = TotalFee(optional_utxos)
               /\ TotalValue(ReturnedCoins) < target_amount + strategy_call.out.fee

\* A pool of three fee-paying coins that cannot cover the target, returned
\* whole as Ok
C28_Witness ==
    /\ DirectOk("LargestFirst")
    /\ PoolCannotCover
    /\ Len(optional_utxos) = MaxOptional
    /\ Len(ReturnedIdx) = MaxOptional
    /\ strategy_call.out.fee >= MaxOptional

\* C29: every InsufficientFunds error of get_selection reports a real
\* shortfall: needed > available, needed being the target plus the fees of
\* the counted coins and available their raw value; the shortfall is what
\* the effective value of the counted coins misses of the target.
C29_ShortfallIsReal ==
    ReturnedInsufficientFunds =>
        /\ result.needed > result.available
        /\ result.needed - result.available = target_amount - TotalEffectiveValue

\* The error with the smallest shortfall, over fee-paying coins
C29_Witness ==
    /\ ReturnedInsufficientFunds
    /\ result.needed = result.available + 1
    /\ result.available > 0
    /\ TotalFee(required_utxos \o WorthSpending) > 0

\* C30: any error of the chosen strategy inside get_selection, a database
\* lookup error of OldestFirstCoinSelection included, is discarded and
\* replaced by a SingleRandomDraw run over the optional pool: the caller never
\* sees the database error, and the coins returned are those of the random
\* draw, in its order, not in oldest-first order.
C30_DatabaseErrorIsDiscarded ==
    /\ result.error # "Database"
    /\ (Returned /\ strategy_call.called /\ ~strategy_call.out.ok) =>
           /\ fallback_call.called
           /\ fallback_call.algorithm = "SingleRandomDraw"
           /\ fallback_call.optional_utxos = strategy_call.optional_utxos
           /\ fallback_call.out.ok => ReturnedOk
           /\ ReturnedOk =>
                  SubSeq(result.selected, 1, Len(fallback_call.out.selected))
                      = fallback_call.out.selected
    /\ (Returned /\ strategy_call.out.err = "Database") =>
           /\ strategy_call.algorithm = "OldestFirst"
           /\ Len(strategy_call.queries) > 0

\* A lookup failed; the call returned Ok with two optional coins that the
\* random draw put in the reverse of the order of the pool
C30_Witness ==
    /\ ReturnedOk
    /\ strategy_call.out.err = "Database"
    /\ fallback_call.out.ok
    /\ Len(fallback_call.out.selected) = 2
    /\ result.selected[1].src = "opt"
    /\ result.selected[2].src = "opt"
    /\ result.selected[1].idx > result.selected[2].idx

----------------------------------------------------------------------------
(* Properties relating two calls *)

\* The positions, in optional_utxos, of the coins a call returned
CoinsOf(call) == {call.out.selected[i].idx : i \in DOMAIN call.out.selected}

\* C27: LargestFirstCoinSelection and BranchAndBoundCoinSelection do not
\* depend on the order in which the optional pool is supplied: for two orders
\* of the same pool of pairwise distinct effective values, with the same
\* target and fee rate, the strategy returns the same set of coins and the
\* same fee (or the same error).
C27_OrderOfPoolIsIrrelevant ==
    (pc = "done" /\ later_call.called) =>
        /\ later_call.out.ok = strategy_call.out.ok
        /\ later_call.out.err = strategy_call.out.err
        /\ CoinsOf(later_call) = CoinsOf(strategy_call)
        /\ later_call.out.fee = strategy_call.out.fee

\* The later call got the three-coin pool of the first in reverse order; both
\* returned the same coins, not all of them, at a positive fee
C27_Witness ==
    /\ pc = "done"
    /\ later_call.called
    /\ Len(optional_utxos) = MaxOptional
    /\ later_call.optional_utxos = Reverse(strategy_call.optional_utxos)
    /\ strategy_call.out.ok
    /\ CoinsOf(strategy_call) # {}
    /\ CoinsOf(strategy_call) # DOMAIN optional_utxos
    /\ strategy_call.out.fee > 0

\* Both calls of get_selection have returned
BothReturned == pc = "done" /\ first_run.done

\* What a result holds, the selected coins as coins of the arguments
Outcome(r) ==
    [kind |-> r.kind, error |-> r.error, needed |-> r.needed,
     available |-> r.available, fee_amount |-> r.fee_amount,
     excess |-> r.excess, waste |-> r.waste,
     selected |-> [i \in DOMAIN r.selected |-> SelectedCoin(r.selected[i])]]

\* The height OldestFirstCoinSelection sorted a transaction by
SortedHeight(t) ==
    IF t \in DOMAIN strategy_call.blockheights /\ strategy_call.blockheights[t].some
    THEN strategy_call.blockheights[t].height
    ELSE U32_MAX

\* No two different coins of the pool have the same sort key. The order
\* sort_unstable_by_key gives coins of equal key is fixed by its input, so it
\* is the same in both calls, but which order it is is left open here; coins
\* of equal effective value are equal coins, coins of equal height need not be.
SortDecidesOrder ==
    (strategy_call.called /\ strategy_call.algorithm = "OldestFirst") =>
        \A i \in DOMAIN strategy_call.optional_utxos :
            \A j \in DOMAIN strategy_call.optional_utxos :
                strategy_call.optional_utxos[i].txid # strategy_call.optional_utxos[j].txid
                    => SortedHeight(strategy_call.optional_utxos[i].txid)
                          # SortedHeight(strategy_call.optional_utxos[j].txid)

====
